---- MODULE Spec2Model ----
\* A state-machine model of model_card_toolkit.ModelCardToolkit:
\* the constructor, scaffold_assets, update_model_card and export_format,
\* acting on one assets directory (record file, template files, rendered
\* documents).
EXTENDS Integers, Sequences, FiniteSets, TLC

\* ---------------------------------------------------------------- bounds

\* Longest list of evaluation-result paths a Source is constructed with.
MaxEvalPaths == 2

\* ------------------------------------------------------------- constants

None == "None"
NoFile == "NoFile"

_UI_TEMPLATES == <<"template/html/default_template.html.jinja", "template/md/default_template.md.jinja">>
_DEFAULT_UI_TEMPLATE_FILE == "template/html/default_template.html.jinja"
_DEFAULT_MODEL_CARD_FILE_NAME == "model_card.html"

\* ------------------------------------------------------- the Record Model

\* ModelCard(): the structured record with every field unset / empty.
ModelCard == [model_details |-> [name |-> None], model_parameters |-> [data |-> <<>>], quantitative_analysis |-> [performance_metrics |-> <<>>, graphics |-> <<>>], considerations |-> [limitations |-> <<>>]]

\* model_card_pb2.ModelCard: the proto message.  A proto3 string field has no
\* None: an unset name reads as the empty string.
IsProto(m) == "pb" \in DOMAIN m

\* ModelCard.to_proto()
to_proto(mc) == [pb |-> TRUE, name |-> IF mc.model_details.name = None THEN "" ELSE mc.model_details.name, data |-> mc.model_parameters.data, performance_metrics |-> mc.quantitative_analysis.performance_metrics, graphics |-> mc.quantitative_analysis.graphics, limitations |-> mc.considerations.limitations]

\* ModelCard().copy_from_proto(proto)
copy_from_proto(p) == [model_details |-> [name |-> IF p.name = "" THEN None ELSE p.name], model_parameters |-> [data |-> p.data], quantitative_analysis |-> [performance_metrics |-> p.performance_metrics, graphics |-> p.graphics], considerations |-> [limitations |-> p.limitations]]

\* The wire form: a sequence of (field, value) entries.  A scalar field is
\* emitted only when set, a repeated field once per element.
Entries(f, s) == [i \in 1..Len(s) |-> [f |-> f, v |-> s[i]]]

\* Message.SerializeToString()
SerializeToString(p) == (IF p.name = "" THEN <<>> ELSE <<[f |-> "name", v |-> p.name]>>) \o Entries("data", p.data) \o Entries("performance_metrics", p.performance_metrics) \o Entries("graphics", p.graphics) \o Entries("limitations", p.limitations)

ProtoFields == {"name", "data", "performance_metrics", "graphics", "limitations"}

EmptyProto == [pb |-> TRUE, name |-> "", data |-> <<>>, performance_metrics |-> <<>>, graphics |-> <<>>, limitations |-> <<>>]

\* Merging one wire entry into a message: a scalar is overwritten, a repeated
\* field is appended to.
MergeEntry(p, e) == IF e.f = "name" THEN [p EXCEPT !.name = e.v] ELSE [p EXCEPT ![e.f] = Append(@, e.v)]

RECURSIVE MergeEntries(_, _)
MergeEntries(p, bytes) == IF bytes = <<>> THEN p ELSE MergeEntries(MergeEntry(p, Head(bytes)), Tail(bytes))

\* Whether the bytes parse as a model card (ParseFromString raises DecodeError
\* otherwise).
Parses(bytes) == \A i \in 1..Len(bytes) : bytes[i].f \in ProtoFields

\* Message.ParseFromString(bytes) on a fresh message
ParseFromString(bytes) == MergeEntries(EmptyProto, bytes)

\* Escaping of a text field by the template engine (autoescape=True).
Escape(s) == IF s = "<b>" THEN "&lt;b&gt;" ELSE IF s = None THEN "" ELSE s

\* template.render(model_details=..., model_parameters=...,
\* quantitative_analysis=..., considerations=...): the document is the
\* template's content filled with the four sections of the record, read from
\* the structured card or from the proto message alike.
Render(tpl, m) == LET p == IF IsProto(m) THEN m ELSE to_proto(m) IN [tpl |-> tpl, model_details |-> Escape(p.name), model_parameters |-> p.data, quantitative_analysis |-> <<p.performance_metrics, p.graphics>>, considerations |-> p.limitations]

\* ------------------------------------------------------- collaborators

\* The evaluation results on disk: path -> metrics, one "metric@slice" string
\* per slice.  "/missing" holds no evaluation result.
EvalPaths == {"/eval1", "/eval2", "/missing"}

\* tfma.load_eval_result(output_path, output_file_format): the parsed
\* EvalResult, or None (found = FALSE) when nothing is found at the path.
load_eval_result(path, fmt) == CASE path = "/eval1" -> [found |-> TRUE, metrics |-> <<"accuracy@a">>] [] path = "/eval2" -> [found |-> TRUE, metrics |-> <<"accuracy@b", "auc@c">>] [] path = "/mlmd_eval" -> [found |-> TRUE, metrics |-> <<"accuracy@d">>] [] OTHER -> [found |-> FALSE, metrics |-> <<>>]

\* The slice a metric belongs to.
SliceOf(metric) == CASE metric = "accuracy@a" -> "a" [] metric = "accuracy@b" -> "b" [] metric = "auc@c" -> "c" [] metric = "accuracy@d" -> "d" [] OTHER -> "?"

\* tfx_util.annotate_eval_result_metrics(model_card, eval_result): appends
\* one performance metric per slice metric of the evaluation result.
annotate_eval_result_metrics(mc, er) == [mc EXCEPT !.quantitative_analysis.performance_metrics = @ \o er.metrics]

\* graphics.annotate_eval_result_plots(model_card, eval_result): appends the
\* plots generated for the evaluation result.
annotate_eval_result_plots(mc, er) == [mc EXCEPT !.quantitative_analysis.graphics = @ \o er.metrics]

\* tfx_util.read_stats_protos(path)
read_stats_protos(path) == path

\* graphics.annotate_dataset_feature_statistics_plots(model_card, data_stats)
annotate_dataset_feature_statistics_plots(mc, stats) == [mc EXCEPT !.model_parameters.data = Append(@, stats)]

\* The lineage store: mlmd.MetadataStore.get_artifacts_by_uri(model_uri).
ModelUris == {"/model", "/dup", "/unknown"}
get_artifacts_by_uri(store, uri) == CASE uri = "/model" -> <<"a1">> [] uri = "/dup" -> <<"a2", "a3">> [] OTHER -> <<>>

\* tfx_util.generate_model_card_for_model(store, artifact_id)
generate_model_card_for_model(store, id) == [ModelCard EXCEPT !.model_details.name = id]

\* tfx_util.get_metrics_artifacts_for_model(store, artifact_id): their uris.
get_metrics_artifacts_for_model(store, id) == IF id = "a1" THEN <<"/mlmd_eval", "/mlmd_gone">> ELSE <<>>

\* tfx_util.read_metrics_eval_result(uri)
read_metrics_eval_result(uri) == load_eval_result(uri, "")

\* tfx_util.get_stats_artifacts_for_model(store, artifact_id): their uris.
get_stats_artifacts_for_model(store, id) == IF id = "a3" THEN <<"/mlmd_stats">> ELSE <<>>

\* pkgutil.get_data('model_card_toolkit', template_path): the content of a
\* packaged resource.
ResourceContent(t) == IF t = _UI_TEMPLATES[1] THEN "html_jinja" ELSE "md_jinja"

\* ------------------------------------------------------------- inputs

\* Source(eval_result_paths, eval_result_file_format, dataset_statistics_paths)
RECURSIVE SeqsUpTo(_, _)
SeqsUpTo(S, n) == IF n = 0 THEN {<<>>} ELSE LET R == SeqsUpTo(S, n - 1) IN R \cup {Append(r, x) : r \in {q \in R : Len(q) = n - 1}, x \in S}

StatsPathLists == {<<>>, <<"/stats1", "/stats2">>}

Sources == [eval_result_paths : SeqsUpTo(EvalPaths, MaxEvalPaths), eval_result_file_format : {""}, dataset_statistics_paths : StatsPathLists]

\* The records a caller hands to update_model_card / export_format: a
\* structured ModelCard, or a model_card_pb2.ModelCard proto.
CardA == [ModelCard EXCEPT !.model_details.name = "My Model", !.quantitative_analysis.performance_metrics = <<"accuracy@a">>]
CardB == [ModelCard EXCEPT !.model_details.name = "<b>", !.considerations.limitations = <<"lim1", "lim2">>]
CardArgs == {CardA, to_proto(CardB)}

\* The file names a document is exported to.
OutputFiles == {_DEFAULT_MODEL_CARD_FILE_NAME, "model_card.md"}

\* The template_path arguments of export_format: none, or the markdown
\* template of the assets directory.
TemplatePaths == {None, _UI_TEMPLATES[2]}

\* An Optional value: <<>> is None, <<x>> is x.
Nothing == <<>>
Some(x) == <<x>>

\* ---------------------------------------------------------------- state

VARIABLES pc, output_dir, _store, _artifact_with_model_uri, _source, pkg_data, proto_file, templates, model_cards, ret, first_scaffold, last_persisted, wr, observed

vars == <<pc, output_dir, _store, _artifact_with_model_uri, _source, pkg_data, proto_file, templates, model_cards, ret, first_scaffold, last_persisted, wr, observed>>

\* The variables of the write in progress and of the concurrent reader.
io_vars == <<wr, observed>>

\* pc                        "new" before the constructor ran, "ready" once it
\*                           returned, "raised" when it raised
\* output_dir                the assets directory, which fixes the paths of
\*                           the record file, the templates and the documents;
\*                           "unset" while the attribute was never assigned
\* _store                    the lineage store handle, or None
\* _artifact_with_model_uri  the resolved model artifact, "unset" while the
\*                           attribute was never assigned
\* _source                   Optional Source
\* pkg_data                  the packaged template resources that can be found
\* proto_file                the file data/model_card.proto of the assets
\*                           directory
\* templates                 the files under template/ of the assets directory
\* model_cards               the files under model_cards/ of the assets
\*                           directory
\* ret                       the last call: its name, arguments, result, error
\*                           and log message
\* first_scaffold            history: what the first scaffold_assets call
\*                           computed and persisted
\* last_persisted            history: the record the last scaffold_assets,
\*                           update_model_card or export_format call of this
\*                           toolkit handed to _write_proto_file
\* wr                        the position of a _write_proto_file call that is
\*                           followed system call by system call: the file
\*                           is open or not, the bytes not yet written, the
\*                           content before the call and the complete new one
\* observed                  what another process read from the record file

AbsentFile == [exists |-> FALSE, bytes |-> <<>>]
NoTemplates == [t \in {_UI_TEMPLATES[1], _UI_TEMPLATES[2]} |-> NoFile]
NoModelCards == [n \in OutputFiles |-> Nothing]
NotWriting == [open |-> FALSE, buf |-> <<>>, prev |-> AbsentFile, new |-> AbsentFile]
NoCall == [op |-> "none", err |-> None, log |-> None, card |-> Nothing, text |-> Nothing, output_file |-> None, model_uri |-> None]

\* What the directory named by output_dir may hold before the toolkit is
\* constructed: nothing, the assets of an earlier toolkit, or a record file
\* that is no model card.
ExistingDirs == {[proto_file |-> AbsentFile, templates |-> NoTemplates], [proto_file |-> [exists |-> TRUE, bytes |-> SerializeToString(to_proto(CardA))], templates |-> [t \in DOMAIN NoTemplates |-> ResourceContent(t)]], [proto_file |-> [exists |-> TRUE, bytes |-> <<[f |-> "junk", v |-> "junk"]>>], templates |-> NoTemplates]}

PkgDataChoices == {{_UI_TEMPLATES[1], _UI_TEMPLATES[2]}, {_UI_TEMPLATES[1]}, {_UI_TEMPLATES[2]}}

Init == /\ pc = "new"
        /\ output_dir = "unset"
        /\ _store = None
        /\ _artifact_with_model_uri = "unset"
        /\ _source = Nothing
        /\ pkg_data \in PkgDataChoices
        /\ \E d \in ExistingDirs : proto_file = d.proto_file /\ templates = d.templates
        /\ model_cards = NoModelCards
        /\ ret = NoCall
        /\ first_scaffold = Nothing
        /\ last_persisted = Nothing
        /\ wr = NotWriting
        /\ observed = Nothing

\* ----------------------------------------------------------- constructor

\* InitError accepting a store that comes without a model_uri.
InitError_store_alone_accepted(mlmd_store, model_uri) == IF mlmd_store # None /\ model_uri # None /\ get_artifacts_by_uri(mlmd_store, model_uri) = <<>> THEN "ValueError: cannot be found in the mlmd_store" ELSE None

\* InitError rejecting every model_uri that comes without a store.
InitError_uri_needs_store(mlmd_store, model_uri) == IF mlmd_store # None /\ model_uri # None THEN (IF get_artifacts_by_uri(mlmd_store, model_uri) = <<>> THEN "ValueError: cannot be found in the mlmd_store" ELSE None) ELSE IF mlmd_store # None \/ model_uri # None THEN "ValueError: model_uri should be set" ELSE None

\* Lines 148-158: the ValueError the constructor raises, or None.
InitError(mlmd_store, model_uri) == IF mlmd_store # None /\ model_uri # None THEN (IF get_artifacts_by_uri(mlmd_store, model_uri) = <<>> THEN "ValueError: cannot be found in the mlmd_store" ELSE None) ELSE IF mlmd_store # None THEN "ValueError: model_uri should be set" ELSE None

\* Lines 152-155 and 159-160: the message the constructor logs, or None.
InitLog(mlmd_store, model_uri) == IF mlmd_store # None /\ model_uri # None THEN (IF Len(get_artifacts_by_uri(mlmd_store, model_uri)) > 1 THEN "artifacts are found, the last one is used" ELSE None) ELSE IF mlmd_store = None /\ model_uri # None THEN "model_uri ignored" ELSE None

\* ResolvedArtifact taking models[0] instead of models[-1].
ResolvedArtifact_first(mlmd_store, model_uri) == LET models == get_artifacts_by_uri(mlmd_store, model_uri) IN IF mlmd_store # None /\ model_uri # None /\ models # <<>> THEN models[1] ELSE "unset"

\* Lines 149-156: the artifact bound to the toolkit; the attribute stays
\* unset when the branch is not taken or raises.
ResolvedArtifact(mlmd_store, model_uri) == LET models == get_artifacts_by_uri(mlmd_store, model_uri) IN IF mlmd_store # None /\ model_uri # None /\ models # <<>> THEN models[Len(models)] ELSE "unset"

\* ModelCardToolkit.__init__(output_dir, mlmd_store, model_uri, source):
\* without output_dir the assets directory is a fresh temporary directory.
__init__(dir, mlmd_store, model_uri, source) ==
  /\ pc = "new"
  /\ output_dir' = IF dir = None THEN "mkdtemp" ELSE dir
  /\ pc' = IF InitError(mlmd_store, model_uri) # None THEN "raised" ELSE "ready"
  /\ IF dir = None
       THEN proto_file' = AbsentFile /\ templates' = NoTemplates
       ELSE UNCHANGED <<proto_file, templates>>
  /\ _source' = source
  /\ _store' = mlmd_store
  /\ _artifact_with_model_uri' = ResolvedArtifact(mlmd_store, model_uri)
  /\ ret' = [NoCall EXCEPT !.op = "__init__", !.model_uri = model_uri, !.err = InitError(mlmd_store, model_uri), !.log = InitLog(mlmd_store, model_uri)]
  /\ UNCHANGED <<pkg_data, model_cards, first_scaffold, last_persisted, io_vars>>

\* ------------------------------------------------------------ file access

\* _write_file(path, content): the directory with the file at path created
\* or overwritten.
_write_file(dir, path, content) == [dir EXCEPT ![path] = content]

\* _write_proto_file opening the file with 'ab' instead of 'wb'.
_write_proto_file_append(file, model_card) == [exists |-> TRUE, bytes |-> file.bytes \o (IF IsProto(model_card) THEN SerializeToString(model_card) ELSE SerializeToString(to_proto(model_card)))]

\* _write_proto_file(path, model_card): the record file after open(path,
\* 'wb'), write and close; a structured card is converted to its proto first.
_write_proto_file(file, model_card) == [exists |-> TRUE, bytes |-> IF IsProto(model_card) THEN SerializeToString(model_card) ELSE SerializeToString(to_proto(model_card))]

\* _read_proto_file returning a fresh ModelCard() without copying the proto.
_read_proto_file_fresh(file) == ModelCard

\* _read_proto_file(path): the structured card parsed from the record file.
_read_proto_file(file) == copy_from_proto(ParseFromString(file.bytes))

\* --------------------------------------------------------------- scaffold

\* InitialModelCard starting from the persisted record when there is one.
InitialModelCard_persisted(store, artifact) == IF store # None THEN generate_model_card_for_model(store, artifact) ELSE IF proto_file.exists /\ Parses(proto_file.bytes) THEN _read_proto_file(proto_file) ELSE ModelCard

\* Lines 200-205: the record the scaffold starts from.
InitialModelCard(store, artifact) == IF store # None THEN generate_model_card_for_model(store, artifact) ELSE ModelCard

\* AnnotateEvalPath annotating a fresh quantitative analysis for each result.
AnnotateEvalPath_replace(mc, path, fmt) == LET eval_result == load_eval_result(path, fmt) IN IF eval_result.found THEN annotate_eval_result_plots(annotate_eval_result_metrics([mc EXCEPT !.quantitative_analysis = ModelCard.quantitative_analysis], eval_result), eval_result) ELSE mc

\* Lines 209-218: one pass of the loop over the explicit evaluation paths.
AnnotateEvalPath(mc, path, fmt) == LET eval_result == load_eval_result(path, fmt) IN IF eval_result.found THEN annotate_eval_result_plots(annotate_eval_result_metrics(mc, eval_result), eval_result) ELSE mc

\* AnnotateEvalPaths leaving the loop at the first path that cannot be loaded.
RECURSIVE AnnotateEvalPaths_break(_, _, _)
AnnotateEvalPaths_break(mc, paths, fmt) == IF paths = <<>> \/ ~load_eval_result(Head(paths), fmt).found THEN mc ELSE AnnotateEvalPaths_break(AnnotateEvalPath(mc, Head(paths), fmt), Tail(paths), fmt)

\* Lines 209-218: the loop over the explicit evaluation paths, in the order
\* given.
RECURSIVE AnnotateEvalPaths(_, _, _)
AnnotateEvalPaths(mc, paths, fmt) == IF paths = <<>> THEN mc ELSE AnnotateEvalPaths(AnnotateEvalPath(mc, Head(paths), fmt), Tail(paths), fmt)

\* Lines 222-226: the loop over the metrics artifacts of the lineage store.
RECURSIVE AnnotateMetricsArtifacts(_, _)
AnnotateMetricsArtifacts(mc, uris) == IF uris = <<>> THEN mc ELSE LET eval_result == read_metrics_eval_result(Head(uris)) IN AnnotateMetricsArtifacts(IF eval_result.found THEN annotate_eval_result_plots(annotate_eval_result_metrics(mc, eval_result), eval_result) ELSE mc, Tail(uris))

\* Lines 230-233 and 237-240: the loops over dataset statistics.
RECURSIVE AnnotateStats(_, _)
AnnotateStats(mc, paths) == IF paths = <<>> THEN mc ELSE AnnotateStats(annotate_dataset_feature_statistics_plots(mc, read_stats_protos(Head(paths))), Tail(paths))

\* ScaffoldModelCard handling the artifacts of the lineage store before the
\* explicit paths of the same kind.
ScaffoldModelCard_lineage_before_explicit(store, artifact, source) ==
  LET mc0 == InitialModelCard(store, artifact)
      mc1 == IF store # None THEN AnnotateMetricsArtifacts(mc0, get_metrics_artifacts_for_model(store, artifact)) ELSE mc0
      mc2 == IF source # Nothing /\ source[1].eval_result_paths # <<>> THEN AnnotateEvalPaths(mc1, source[1].eval_result_paths, source[1].eval_result_file_format) ELSE mc1
      mc3 == IF store # None THEN AnnotateStats(mc2, get_stats_artifacts_for_model(store, artifact)) ELSE mc2
      mc4 == IF source # Nothing /\ source[1].dataset_statistics_paths # <<>> THEN AnnotateStats(mc3, source[1].dataset_statistics_paths) ELSE mc3
  IN mc4

\* _scaffold_model_card() of a toolkit with the given store, artifact and
\* source.
ScaffoldModelCard(store, artifact, source) ==
  LET mc0 == InitialModelCard(store, artifact)
      mc1 == IF source # Nothing /\ source[1].eval_result_paths # <<>> THEN AnnotateEvalPaths(mc0, source[1].eval_result_paths, source[1].eval_result_file_format) ELSE mc0
      mc2 == IF store # None THEN AnnotateMetricsArtifacts(mc1, get_metrics_artifacts_for_model(store, artifact)) ELSE mc1
      mc3 == IF source # Nothing /\ source[1].dataset_statistics_paths # <<>> THEN AnnotateStats(mc2, source[1].dataset_statistics_paths) ELSE mc2
      mc4 == IF store # None THEN AnnotateStats(mc3, get_stats_artifacts_for_model(store, artifact)) ELSE mc3
  IN mc4

_scaffold_model_card == ScaffoldModelCard(_store, _artifact_with_model_uri, _source)

\* WriteTemplates skipping the first template of _UI_TEMPLATES.
RECURSIVE WriteTemplates_skip_first(_, _)
WriteTemplates_skip_first(dir, ts) == IF ts = <<>> \/ Head(ts) \notin pkg_data THEN dir ELSE WriteTemplates_skip_first(IF Head(ts) = _UI_TEMPLATES[1] THEN dir ELSE _write_file(dir, Head(ts), ResourceContent(Head(ts))), Tail(ts))

\* Lines 271-277: the template files after the loop over _UI_TEMPLATES, which
\* stops at the first resource pkgutil.get_data does not find.
RECURSIVE WriteTemplates(_, _)
WriteTemplates(dir, ts) == IF ts = <<>> \/ Head(ts) \notin pkg_data THEN dir ELSE WriteTemplates(_write_file(dir, Head(ts), ResourceContent(Head(ts))), Tail(ts))

MissingTemplates == {i \in 1..Len(_UI_TEMPLATES) : _UI_TEMPLATES[i] \notin pkg_data}

\* scaffold_assets consuming the evaluation paths of the Source it reads.
scaffold_assets_consumes_source ==
  LET model_card == _scaffold_model_card
      written == _write_proto_file(proto_file, model_card)
      failed == MissingTemplates # {}
  IN /\ pc = "ready"
     /\ proto_file' = written
     /\ templates' = WriteTemplates(templates, _UI_TEMPLATES)
     /\ ret' = [NoCall EXCEPT !.op = "scaffold_assets", !.err = IF failed THEN "FileNotFoundError" ELSE None, !.card = IF failed THEN Nothing ELSE Some(model_card)]
     /\ first_scaffold' = IF first_scaffold = Nothing THEN Some([card |-> model_card, file |-> written, again |-> FALSE, over_change |-> FALSE]) ELSE Some([first_scaffold[1] EXCEPT !.again = TRUE, !.over_change = @ \/ proto_file # first_scaffold[1].file])
     /\ last_persisted' = Some(model_card)
     /\ _source' = IF _source = Nothing THEN _source ELSE Some([_source[1] EXCEPT !.eval_result_paths = <<>>])
     /\ UNCHANGED <<pc, output_dir, _store, _artifact_with_model_uri, pkg_data, model_cards, io_vars>>

\* scaffold_assets writing the record file only after every template is
\* written.
scaffold_assets_templates_first ==
  LET model_card == _scaffold_model_card
      written == _write_proto_file(proto_file, model_card)
      failed == MissingTemplates # {}
  IN /\ pc = "ready"
     /\ proto_file' = IF failed THEN proto_file ELSE written
     /\ templates' = WriteTemplates(templates, _UI_TEMPLATES)
     /\ ret' = [NoCall EXCEPT !.op = "scaffold_assets", !.err = IF failed THEN "FileNotFoundError" ELSE None, !.card = IF failed THEN Nothing ELSE Some(model_card)]
     /\ first_scaffold' = IF first_scaffold = Nothing THEN Some([card |-> model_card, file |-> written, again |-> FALSE, over_change |-> FALSE]) ELSE Some([first_scaffold[1] EXCEPT !.again = TRUE, !.over_change = @ \/ proto_file # first_scaffold[1].file])
     /\ last_persisted' = IF failed THEN last_persisted ELSE Some(model_card)
     /\ UNCHANGED <<pc, output_dir, _store, _artifact_with_model_uri, _source, pkg_data, model_cards, io_vars>>

\* ModelCardToolkit.scaffold_assets()
scaffold_assets ==
  LET model_card == _scaffold_model_card
      written == _write_proto_file(proto_file, model_card)
      failed == MissingTemplates # {}
  IN /\ pc = "ready"
     /\ proto_file' = written
     /\ templates' = WriteTemplates(templates, _UI_TEMPLATES)
     /\ ret' = [NoCall EXCEPT !.op = "scaffold_assets", !.err = IF failed THEN "FileNotFoundError" ELSE None, !.card = IF failed THEN Nothing ELSE Some(model_card)]
     /\ first_scaffold' = IF first_scaffold = Nothing THEN Some([card |-> model_card, file |-> written, again |-> FALSE, over_change |-> FALSE]) ELSE Some([first_scaffold[1] EXCEPT !.again = TRUE, !.over_change = @ \/ proto_file # first_scaffold[1].file])
     /\ last_persisted' = Some(model_card)
     /\ UNCHANGED <<pc, output_dir, _store, _artifact_with_model_uri, _source, pkg_data, model_cards, io_vars>>

\* ModelCardToolkit.update_model_card(model_card)
update_model_card(model_card) ==
  /\ pc = "ready"
  /\ proto_file' = _write_proto_file(proto_file, model_card)
  /\ ret' = [NoCall EXCEPT !.op = "update_model_card", !.card = Some(model_card)]
  /\ last_persisted' = Some(model_card)
  /\ UNCHANGED <<pc, output_dir, _store, _artifact_with_model_uri, _source, pkg_data, templates, model_cards, first_scaffold, io_vars>>

\* ----------------------------------------------------------------- export

\* Lines 320-322: the template path, the default template of the assets
\* directory when none is given.
ResolveTemplatePath(template_path) == IF template_path = None THEN _DEFAULT_UI_TEMPLATE_FILE ELSE template_path

\* jinja_env.get_template(template_file): whether the loader finds the file.
TemplateFound(path) == path \in DOMAIN templates /\ templates[path] # NoFile

\* RecordError with a missing record file taken for an empty record.
RecordError_missing_is_empty(model_card) == IF model_card # Nothing \/ ~proto_file.exists THEN None ELSE IF Parses(proto_file.bytes) THEN None ELSE "DecodeError"

\* Lines 326-335: the error raised while the record is obtained, if any.
RecordError(model_card) == IF model_card # Nothing THEN None ELSE IF proto_file.exists THEN (IF Parses(proto_file.bytes) THEN None ELSE "DecodeError") ELSE "ValueError: scaffold_assets() must be called before export_format()"

\* ExportPersist replacing a record file that does not parse by an empty
\* record.
ExportPersist_resets_malformed(model_card) == IF model_card # Nothing THEN _write_proto_file(proto_file, model_card[1]) ELSE IF proto_file.exists /\ ~Parses(proto_file.bytes) THEN _write_proto_file(proto_file, ModelCard) ELSE proto_file

\* ExportPersist creating the record file when there is none to read.
ExportPersist_creates(model_card) == IF model_card # Nothing THEN _write_proto_file(proto_file, model_card[1]) ELSE [proto_file EXCEPT !.exists = TRUE]

\* Lines 326-331: the record file after the branch on model_card.
ExportPersist(model_card) == IF model_card # Nothing THEN _write_proto_file(proto_file, model_card[1]) ELSE proto_file

\* WriteModelCard writing to the default file name whatever output_file is.
WriteModelCard_default_name(output_file, content) == _write_file(model_cards, _DEFAULT_MODEL_CARD_FILE_NAME, Some(content))

\* Lines 351-352: the rendered documents after the document is written to
\* output_file under the model_cards directory.
WriteModelCard(output_file, content) == _write_file(model_cards, output_file, Some(content))

\* ModelCardToolkit.export_format(model_card, template_path, output_file)
export_format(model_card, template_path, output_file) ==
  LET path == ResolveTemplatePath(template_path)
      record_error == RecordError(model_card)
      error == IF record_error # None THEN record_error ELSE IF TemplateFound(path) THEN None ELSE "TemplateNotFound"
      card == IF model_card # Nothing THEN model_card[1] ELSE _read_proto_file(proto_file)
      model_card_file_content == Render(templates[path], card)
  IN /\ pc = "ready"
     /\ proto_file' = ExportPersist(model_card)
     /\ model_cards' = IF error = None THEN WriteModelCard(output_file, model_card_file_content) ELSE model_cards
     /\ ret' = [NoCall EXCEPT !.op = "export_format", !.err = error, !.card = model_card, !.output_file = output_file, !.text = IF error = None THEN Some(model_card_file_content) ELSE Nothing]
     /\ last_persisted' = IF model_card # Nothing THEN model_card ELSE last_persisted
     /\ UNCHANGED <<pc, output_dir, _store, _artifact_with_model_uri, _source, pkg_data, templates, first_scaffold, io_vars>>

\* ------------------------------------------------------------ behaviours

\* One toolkit on a directory that may hold earlier assets, with every
\* argument of update_model_card and export_format, and two sources.
SomeSources == {Nothing, Some([eval_result_paths |-> <<"/eval1", "/missing">>, eval_result_file_format |-> "", dataset_statistics_paths |-> <<"/stats1", "/stats2">>])}

Construct == \E dir \in {None, "D"}, mlmd_store \in {None, "MLMD"}, model_uri \in ModelUris \cup {None}, source \in SomeSources : __init__(dir, mlmd_store, model_uri, source)

Update == \E model_card \in CardArgs : update_model_card(model_card)

Export == \E model_card \in {Nothing} \cup {Some(c) : c \in CardArgs}, template_path \in TemplatePaths, output_file \in OutputFiles : export_format(model_card, template_path, output_file)

Next == Construct \/ scaffold_assets \/ Update \/ Export

Spec == Init /\ [][Next]_vars

\* One toolkit on a fresh directory with every packaged template, constructed
\* with any store, locator and source, then scaffolded, updated and exported.
InitScaffold == Init /\ pkg_data = {_UI_TEMPLATES[1], _UI_TEMPLATES[2]} /\ ~proto_file.exists

ConstructAny == \E mlmd_store \in {None, "MLMD"}, model_uri \in ModelUris \cup {None}, source \in {Nothing} \cup {Some(s) : s \in Sources} : __init__("D", mlmd_store, model_uri, source)

UpdateA == update_model_card(CardA)

ExportDefault == export_format(Nothing, None, _DEFAULT_MODEL_CARD_FILE_NAME)

NextScaffold == ConstructAny \/ scaffold_assets \/ UpdateA \/ ExportDefault

SpecScaffold == InitScaffold /\ [][NextScaffold]_vars

\* A toolkit without store and source, whose _write_proto_file
\* calls (from scaffold_assets, update_model_card or export_format) are followed
\* one system call at a time while another process reads the record file.
InitIO == /\ Init
          /\ pkg_data = {_UI_TEMPLATES[1], _UI_TEMPLATES[2]}
          /\ Parses(proto_file.bytes)

\* Lines 175-176: os.makedirs and open(path, 'wb'), which creates the file or
\* truncates it to length zero; the serialized record is still to be written.
write_open(model_card) ==
  /\ pc = "ready"
  /\ ~wr.open
  /\ wr' = [open |-> TRUE, buf |-> _write_proto_file(proto_file, model_card).bytes, prev |-> proto_file, new |-> _write_proto_file(proto_file, model_card)]
  /\ proto_file' = [exists |-> TRUE, bytes |-> <<>>]
  /\ UNCHANGED <<pc, output_dir, _store, _artifact_with_model_uri, _source, pkg_data, templates, model_cards, ret, first_scaffold, last_persisted, observed>>

\* Lines 177-180: f.write(...): the buffered writer hands the bytes to the
\* file in one piece or in several.
write_bytes ==
  /\ wr.open
  /\ \E k \in 1..Len(wr.buf) :
       /\ proto_file' = [proto_file EXCEPT !.bytes = @ \o SubSeq(wr.buf, 1, k)]
       /\ wr' = [wr EXCEPT !.buf = SubSeq(@, k + 1, Len(@))]
  /\ UNCHANGED <<pc, output_dir, _store, _artifact_with_model_uri, _source, pkg_data, templates, model_cards, ret, first_scaffold, last_persisted, observed>>

\* Line 176: leaving the with block closes the file once everything is
\* written; _write_proto_file returns.
write_close ==
  /\ wr.open
  /\ wr.buf = <<>>
  /\ wr' = NotWriting
  /\ UNCHANGED <<pc, output_dir, _store, _artifact_with_model_uri, _source, pkg_data, proto_file, templates, model_cards, ret, first_scaffold, last_persisted, observed>>

\* Lines 185-186 run by another process on the same assets directory: the
\* content of the record file as it is at that moment.
reader_read ==
  /\ observed' = Some([file |-> proto_file, during |-> wr.open, prev |-> wr.prev, new |-> wr.new])
  /\ UNCHANGED <<pc, output_dir, _store, _artifact_with_model_uri, _source, pkg_data, proto_file, templates, model_cards, ret, first_scaffold, last_persisted, wr>>

ConstructPlain == __init__("D", None, None, Nothing)

WriteOpen == \E model_card \in CardArgs \cup {ModelCard} : write_open(model_card)

NextIO == ConstructPlain \/ WriteOpen \/ write_bytes \/ write_close \/ reader_read

SpecIO == InitIO /\ [][NextIO]_vars

\* -------------------------------------------------------------- properties

PreconditionError == "ValueError: scaffold_assets() must be called before export_format()"

\* The structured record a caller's record stands for.
Structured(m) == IF IsProto(m) THEN copy_from_proto(m) ELSE m

\* C1: export_format called with no model_card while the assets directory
\* holds no record file raises the precondition error 'scaffold_assets() must
\* be called before export_format()', returns no document and writes none.
C1_ExportBeforeScaffoldRaises == [][(Export /\ ~proto_file.exists /\ ret'.card = Nothing) => (ret'.err = PreconditionError /\ ret'.text = Nothing /\ model_cards' = model_cards)]_vars

\* C1 witness: an export without model_card has raised the precondition
\* error on a directory without a record file.
C1_Witness == ret.op = "export_format" /\ ret.card = Nothing /\ ~proto_file.exists /\ ret.err = PreconditionError

\* C2: after scaffold_assets returned a record r, and after
\* update_model_card(r) for r a structured ModelCard or a proto, reading and
\* deserializing data/model_card.proto yields a record field-wise equal to r.
C2_PersistLoadRoundTrip == ((ret.op = "scaffold_assets" /\ ret.err = None) \/ ret.op = "update_model_card") => (proto_file.exists /\ Parses(proto_file.bytes) /\ _read_proto_file(proto_file) = Structured(ret.card[1]))

\* C2 witness: update_model_card was given a proto with a name and repeated
\* fields while the record file already held another record.
C2_Witness == ret.op = "update_model_card" /\ ret.card = Some(to_proto(CardB)) /\ first_scaffold # Nothing

\* C3 as stated: no export_format call, with or without a model_card
\* argument, changes the content of the record file.
C3_ExportNeverWritesRecord == [][Export => proto_file' = proto_file]_vars

\* C3 amended: an export_format call without a model_card argument leaves the
\* record file as it was; a call with a model_card argument overwrites the
\* record file with that record, as update_model_card does.
C3_ExportWritesRecordOnlyWhenGiven == [][Export => IF ret'.card = Nothing THEN proto_file' = proto_file ELSE (proto_file'.exists /\ Parses(proto_file'.bytes) /\ _read_proto_file(proto_file') = Structured(ret'.card[1]))]_vars

\* C3 witness: an export without model_card has rendered the persisted
\* record.
C3_Witness == ret.op = "export_format" /\ ret.card = Nothing /\ ret.err = None /\ proto_file.exists

\* C4: a reader that reads the record file while a _write_proto_file call is
\* in progress observes the complete previous content or the complete new
\* content, never an empty or partly written file.
C4_AtomicOverwrite == \A i \in DOMAIN observed : observed[i].during => observed[i].file \in {observed[i].prev, observed[i].new}

\* C5 as stated: a toolkit constructed with a model_uri but without an
\* mlmd_store is never produced, the constructor raises.
C5_UriWithoutStoreRaises == (ret.op = "__init__" /\ _store = None /\ ret.model_uri # None) => (pc = "raised" /\ ret.err # None)

\* C5 amended: constructing with a model_uri but without an mlmd_store is no
\* error: the constructor logs that the model_uri is ignored and returns a
\* toolkit that has no lineage binding.
C5_UriWithoutStoreIgnored == (ret.op = "__init__" /\ _store = None /\ ret.model_uri # None) => (pc = "ready" /\ ret.err = None /\ ret.log = "model_uri ignored" /\ _artifact_with_model_uri = "unset")

\* C5 witness: the constructor has returned for a model_uri given without a
\* store.
C5_Witness == ret.op = "__init__" /\ _store = None /\ ret.model_uri = "/model" /\ pc = "ready"

\* C6: constructed with a store and a model_uri, the constructor raises the
\* configuration error when the store returns no artifact for the uri, and
\* otherwise succeeds and binds exactly the last artifact of the returned list.
C6_LineageResolution == (ret.op = "__init__" /\ _store # None /\ ret.model_uri # None) => LET models == get_artifacts_by_uri(_store, ret.model_uri) IN IF Len(models) = 0 THEN pc = "raised" /\ ret.err = "ValueError: cannot be found in the mlmd_store" ELSE pc = "ready" /\ ret.err = None /\ _artifact_with_model_uri = models[Len(models)]

\* C6 witness: the constructor has bound the last of the two artifacts the
\* store returns for the uri.
C6_Witness == ret.op = "__init__" /\ _store # None /\ ret.model_uri = "/dup" /\ pc = "ready" /\ _artifact_with_model_uri = "a3"

\* C6 witness of the other case: the constructor has raised for a uri the
\* store knows no artifact of.
C6_WitnessUnknown == ret.op = "__init__" /\ _store # None /\ ret.model_uri = "/unknown" /\ pc = "raised"

\* The evaluation paths of a source that load_eval_result can load, in the
\* order given.
LoadablePaths(source) == SelectSeq(source.eval_result_paths, LAMBDA path : load_eval_result(path, source.eval_result_file_format).found)

\* C7: scaffold_assets on a source some of whose evaluation-result paths
\* cannot be loaded raises no error and returns the record that scaffolding
\* with only the loadable paths, in the same relative order, returns.
C7_MissingEvalSourceSkipped == (ret.op = "scaffold_assets" /\ _source # Nothing) => (ret.err = None /\ ret.card = Some(ScaffoldModelCard(_store, _artifact_with_model_uri, Some([_source[1] EXCEPT !.eval_result_paths = LoadablePaths(_source[1])]))))

\* C7 witness: scaffold_assets has returned for a path list whose first path
\* cannot be loaded and whose second can.
C7_Witness == ret.op = "scaffold_assets" /\ ret.err = None /\ _source # Nothing /\ _source[1].eval_result_paths = <<"/missing", "/eval2">>

\* The metrics of every evaluation result a scaffold loads: those of the
\* explicit paths, then those of the metrics artifacts of the lineage store.
LoadedMetrics == LET explicit == IF _source = Nothing THEN <<>> ELSE LoadablePaths(_source[1])
                     lineage == IF _store = None THEN <<>> ELSE SelectSeq(get_metrics_artifacts_for_model(_store, _artifact_with_model_uri), LAMBDA uri : read_metrics_eval_result(uri).found)
                 IN [i \in 1..Len(explicit) |-> load_eval_result(explicit[i], _source[1].eval_result_file_format).metrics] \o [i \in 1..Len(lineage) |-> read_metrics_eval_result(lineage[i]).metrics]

Slices(metrics) == {SliceOf(metrics[i]) : i \in 1..Len(metrics)}

DisjointSlices == \A i, j \in 1..Len(LoadedMetrics) : i # j => Slices(LoadedMetrics[i]) \cap Slices(LoadedMetrics[j]) = {}

\* C8: when the evaluation results a scaffold loads have pairwise disjoint
\* slices, the quantitative analysis of the returned record holds every metric
\* of every one of them, hence the union of their slices.
C8_MetricsAccumulate == (ret.op = "scaffold_assets" /\ ret.err = None /\ DisjointSlices) => LET pm == ret.card[1].quantitative_analysis.performance_metrics IN /\ \A i \in 1..Len(LoadedMetrics) : \A k \in 1..Len(LoadedMetrics[i]) : \E n \in 1..Len(pm) : pm[n] = LoadedMetrics[i][k]
                                                                                                                                                       /\ UNION {Slices(LoadedMetrics[i]) : i \in 1..Len(LoadedMetrics)} \subseteq Slices(pm)

\* C8 witness: scaffold_assets has returned for two explicit evaluation
\* results and one of the lineage store, with disjoint slices.
C8_Witness == ret.op = "scaffold_assets" /\ ret.err = None /\ DisjointSlices /\ Len(LoadedMetrics) = 3 /\ _source # Nothing /\ _source[1].eval_result_paths = <<"/eval1", "/eval2">>

\* C9: without a lineage store every scaffold_assets call starts from an
\* empty record: whatever update_model_card and export_format calls came in
\* between, it persists the record the first scaffold_assets call persisted
\* and, when it returns, returns the record the first call computed.
C9_RescaffoldIdempotent == (ret.op = "scaffold_assets" /\ _store = None) => (first_scaffold # Nothing /\ proto_file = first_scaffold[1].file /\ (ret.err = None => ret.card = Some(first_scaffold[1].card)))

\* C9 witness: a scaffold_assets call other than the first has returned on a
\* toolkit without store, and such a call found a record file that a call in
\* between had changed.
C9_Witness == ret.op = "scaffold_assets" /\ ret.err = None /\ _store = None /\ _source # Nothing /\ first_scaffold # Nothing /\ first_scaffold[1].again /\ first_scaffold[1].over_change

\* C10: after a successful export_format(output_file = n) the file n under
\* model_cards holds exactly the returned text, whatever it held before, and
\* every other file under model_cards is as it was.
C10_ExportWritesOnlyOutputFile == [][(Export /\ ret'.err = None) => (model_cards'[ret'.output_file] = ret'.text /\ ret'.text # Nothing /\ \A m \in OutputFiles : m # ret'.output_file => model_cards'[m] = model_cards[m])]_vars

\* C10 witness: an export to model_card.md has succeeded while model_cards
\* holds another document with another text.
C10_Witness == ret.op = "export_format" /\ ret.err = None /\ ret.output_file = "model_card.md" /\ model_cards[_DEFAULT_MODEL_CARD_FILE_NAME] # Nothing /\ model_cards[_DEFAULT_MODEL_CARD_FILE_NAME] # model_cards["model_card.md"]

\* C11: an export_format call without model_card that returns renders the
\* record most recently persisted by a scaffold_assets, update_model_card or
\* export_format(model_card) call of the toolkit, never an older one.
C11_ExportRendersLatestRecord == (ret.op = "export_format" /\ ret.card = Nothing /\ ret.err = None /\ last_persisted # Nothing) => ret.text = Some(Render(ret.text[1].tpl, last_persisted[1]))

\* C11 witness: an export without model_card has rendered the proto that an
\* update_model_card call persisted after a scaffold_assets call.
C11_Witness == ret.op = "export_format" /\ ret.card = Nothing /\ ret.err = None /\ first_scaffold # Nothing /\ last_persisted = Some(to_proto(CardB)) /\ first_scaffold[1].card # CardB

\* The adapter applications of one scaffold in the order (1) lineage fragment,
\* (2) explicit evaluation paths as given, (3) metrics artifacts of the
\* lineage store, (4) explicit statistics paths as given, (5) statistics
\* artifacts of the lineage store.
C12_Order == LET tag(kind, xs) == [i \in 1..Len(xs) |-> [kind |-> kind, arg |-> xs[i]]]
                 bound == _store # None
                 given == _source # Nothing
             IN (IF bound THEN tag("lineage", <<_artifact_with_model_uri>>) ELSE <<>>)
                  \o (IF given THEN tag("eval", _source[1].eval_result_paths) ELSE <<>>)
                  \o (IF bound THEN tag("lineage_eval", get_metrics_artifacts_for_model(_store, _artifact_with_model_uri)) ELSE <<>>)
                  \o (IF given THEN tag("stats", _source[1].dataset_statistics_paths) ELSE <<>>)
                  \o (IF bound THEN tag("lineage_stats", get_stats_artifacts_for_model(_store, _artifact_with_model_uri)) ELSE <<>>)

\* One adapter applied to the record.
ApplyAdapter(mc, step) == LET eval_result == IF step.kind = "eval" THEN load_eval_result(step.arg, _source[1].eval_result_file_format) ELSE read_metrics_eval_result(step.arg)
                          IN CASE step.kind = "lineage" -> generate_model_card_for_model(_store, step.arg)
                               [] step.kind \in {"eval", "lineage_eval"} -> (IF eval_result.found THEN annotate_eval_result_plots(annotate_eval_result_metrics(mc, eval_result), eval_result) ELSE mc)
                               [] OTHER -> annotate_dataset_feature_statistics_plots(mc, read_stats_protos(step.arg))

RECURSIVE ApplyAdapters(_, _)
ApplyAdapters(mc, steps) == IF steps = <<>> THEN mc ELSE ApplyAdapters(ApplyAdapter(mc, Head(steps)), Tail(steps))

\* C12: the record a scaffold returns is the one obtained by applying the
\* adapters to an empty record in the fixed order lineage fragment, explicit
\* evaluation paths, lineage metrics artifacts, explicit statistics paths,
\* lineage statistics artifacts; so in the quantitative analysis and in the
\* dataset graphics what comes from explicit paths precedes what comes from
\* the lineage store.
C12_MergeOrder == (ret.op = "scaffold_assets" /\ ret.err = None) => ret.card = Some(ApplyAdapters(ModelCard, C12_Order))

\* C12 witness: a scaffold has returned for a toolkit with a store whose
\* model has metrics artifacts and with explicit evaluation and statistics
\* paths.
C12_Witness == ret.op = "scaffold_assets" /\ ret.err = None /\ _artifact_with_model_uri = "a1" /\ _source # Nothing /\ _source[1].eval_result_paths = <<"/eval2", "/eval1">> /\ _source[1].dataset_statistics_paths # <<>> /\ ret.card[1].quantitative_analysis.performance_metrics = <<"accuracy@b", "auc@c", "accuracy@a", "accuracy@d">>

\* C12 witness for statistics: explicit statistics paths and a statistics
\* artifact of the lineage store.
C12_WitnessStats == ret.op = "scaffold_assets" /\ ret.err = None /\ _artifact_with_model_uri = "a3" /\ ret.card[1].model_parameters.data = <<"/stats1", "/stats2", "/mlmd_stats">>

\* C13 as stated: in every state of a constructed toolkit in which the record
\* file exists and holds a model card, the default template
\* html/default_template.html.jinja exists under the template path of the
\* assets directory.
C13_RecordImpliesDefaultTemplate == (pc = "ready" /\ proto_file.exists /\ Parses(proto_file.bytes)) => TemplateFound(_DEFAULT_UI_TEMPLATE_FILE)

\* C13 amended: export_format without template_path resolves to the default
\* template of the assets directory; once a scaffold_assets call of the
\* toolkit has found that packaged template, the file exists there and every
\* such export that has a record renders with it.  Without such a scaffold
\* the export raises TemplateNotFound when the directory holds no default
\* template, although the record file exists.
C13_DefaultTemplateAfterScaffold == [][\A model_card \in {Nothing} \cup {Some(c) : c \in CardArgs}, output_file \in OutputFiles : (export_format(model_card, None, output_file) /\ RecordError(model_card) = None) => IF first_scaffold # Nothing /\ _UI_TEMPLATES[1] \in pkg_data THEN ret'.err = None /\ ret'.text # Nothing /\ ret'.text[1].tpl = ResourceContent(_UI_TEMPLATES[1]) ELSE (ret'.err = None <=> TemplateFound(_DEFAULT_UI_TEMPLATE_FILE)) /\ (ret'.err # None => ret'.err = "TemplateNotFound" /\ ret'.text = Nothing)]_vars

\* C13 witness: an export has rendered the persisted record with the default
\* template that a scaffold_assets call of this toolkit wrote into a
\* directory that held none.
C13_Witness == ret.op = "export_format" /\ ret.err = None /\ ret.card = Nothing /\ first_scaffold # Nothing /\ ret.text[1].tpl = ResourceContent(_UI_TEMPLATES[1]) /\ last_persisted = Some(to_proto(CardB))

\* C13 witness of the other case: an export has raised TemplateNotFound
\* although the record file exists.
C13_WitnessNotFound == ret.op = "export_format" /\ ret.err = "TemplateNotFound" /\ proto_file.exists /\ first_scaffold = Nothing

\* C14: no scaffold_assets, update_model_card or export_format call changes
\* the lineage binding (store handle and resolved artifact), the source
\* descriptor or the assets directory the constructor fixed.
C14_ConfigurationImmutable == [][pc = "ready" => (pc' = "ready" /\ output_dir' = output_dir /\ _store' = _store /\ _artifact_with_model_uri' = _artifact_with_model_uri /\ _source' = _source)]_vars

\* C14 witness: a toolkit with a lineage binding and a source has been
\* scaffolded, updated and exported.
C14_Witness == pc = "ready" /\ ret.op = "export_format" /\ ret.err = None /\ _store # None /\ _artifact_with_model_uri = "a3" /\ _source # Nothing /\ first_scaffold # Nothing /\ last_persisted = Some(CardA)

\* C15: an export_format call without model_card on a record file that exists
\* but does not parse as a model card raises, returns and writes no document,
\* and leaves the record file as it was.
C15_MalformedRecordIsFatal == [][(Export /\ ret'.card = Nothing /\ proto_file.exists /\ ~Parses(proto_file.bytes)) => (ret'.err = "DecodeError" /\ ret'.text = Nothing /\ model_cards' = model_cards /\ proto_file' = proto_file)]_vars

\* C15 witness: an export without model_card has raised on a record file
\* that does not parse.
C15_Witness == ret.op = "export_format" /\ ret.card = Nothing /\ ret.err = "DecodeError" /\ proto_file.exists /\ ~Parses(proto_file.bytes)

\* C16: a scaffold_assets call that misses a packaged template raises
\* FileNotFoundError after it has written the freshly scaffolded record to the
\* record file and the templates listed before the first missing one; the
\* templates from the missing one on are as they were.
C16_RecordPersistedBeforeTemplates == [][(scaffold_assets /\ MissingTemplates # {}) => LET missing == CHOOSE i \in MissingTemplates : \A j \in MissingTemplates : i <= j IN /\ ret'.err = "FileNotFoundError" /\ ret'.card = Nothing
                                                                                                                                                                     /\ proto_file'.exists /\ Parses(proto_file'.bytes) /\ _read_proto_file(proto_file') = ScaffoldModelCard(_store, _artifact_with_model_uri, _source)
                                                                                                                                                                     /\ \A i \in 1..Len(_UI_TEMPLATES) : templates'[_UI_TEMPLATES[i]] = IF i < missing THEN ResourceContent(_UI_TEMPLATES[i]) ELSE templates[_UI_TEMPLATES[i]]]_vars

\* C16 witness: scaffold_assets has raised for the second template while the
\* record file holds the scaffolded record, which replaced another one, and
\* the first template is written.
C16_Witness == ret.op = "scaffold_assets" /\ ret.err = "FileNotFoundError" /\ pkg_data = {_UI_TEMPLATES[1]} /\ templates[_UI_TEMPLATES[1]] = ResourceContent(_UI_TEMPLATES[1]) /\ templates[_UI_TEMPLATES[2]] = NoFile /\ first_scaffold # Nothing /\ first_scaffold[1].over_change /\ last_persisted = Some(first_scaffold[1].card) /\ proto_file = first_scaffold[1].file

\* C17: a constructed toolkit that holds a lineage store holds a resolved
\* model artifact, and for a toolkit without a store the scaffold does not
\* depend on the artifact attribute, which is unset.
C17_BindingSetWheneverRead == pc = "ready" => IF _store # None THEN _artifact_with_model_uri # "unset" ELSE _artifact_with_model_uri = "unset" /\ \A a \in {"a1", "a2", "a3"} : ScaffoldModelCard(_store, a, _source) = _scaffold_model_card

\* C17 witness: a toolkit with a store and a resolved artifact has been
\* scaffolded.
C17_Witness == pc = "ready" /\ _store # None /\ _artifact_with_model_uri = "a1" /\ ret.op = "scaffold_assets" /\ ret.err = None

\* C17 witness of the other case: a toolkit without a store has been
\* scaffolded with the artifact attribute unset.
C17_WitnessNoStore == pc = "ready" /\ _store = None /\ _artifact_with_model_uri = "unset" /\ ret.op = "scaffold_assets" /\ ret.err = None

====
